---- MODULE Spec2Model ----
(***************************************************************************)
(* chain_link: an owner type T declares a length (impl Length, Len = L<N>), *)
(* implements stages (impl Chain<I>), and obtains Cascade when Link<N>      *)
(* exists for it.  The model has two parts:                                 *)
(*   - the program text of the owner type (its impls) and the trait         *)
(*     resolution rustc performs on it (InRange, Link, Cascade impls of     *)
(*     src/src/lib.rs);                                                     *)
(*   - the execution of T::cascade(input) as a call stack of cascade, link  *)
(*     and chain frames.                                                    *)
(***************************************************************************)
EXTENDS Integers, Sequences, FiniteSets, TLC

VARIABLES
    phase,      \* "authoring" | "rejected" | "built": the owner type's crate
    length,     \* the impls of Length for T: {} or {N} (Len = L<N>)
    chains,     \* the impls of Chain<I> for T: records [idx, in, out, f]
    stack,      \* the call stack of the running cascade, top last
    val,        \* the value passed to the next call / returned by the last
    unwinding,  \* {} or {payload}: a panic travelling up the stack
    trace,      \* the stage events of the current invocation
    input,      \* the input of the current invocation, <<>> before any
    result      \* the outcome of the current invocation

vars == <<phase, length, chains, stack, val, unwinding, trace, input, result>>

----------------------------------------------------------------------------
(* Bounds of the exploration *)

\* declared lengths and stage indices of Spec range over 0..MaxLen
MaxLen == 3
\* input and intermediate values are 0..MaxVal
MaxVal == 2
\* WideSpec: at most this many Chain impls on the owner type
WideMaxImpls == 2

(* Program constants *)

\* seq!(N in 1..=32 { seq!(I in 0..N { impl InRange<I, L<N>> ...
RangeMax == 32
\* seq!(N in 2..=32 { impl Link<N> for T ...
LinkMax == 32

Val == 0..MaxVal
Types == {"A", "B"}
\* user-supplied stage logic: "dbl" doubles (wrapping), "dec" subtracts one
\* and panics on 0 (as a failed assert_eq! in the tests' stages does)
Transforms == {"dbl", "dec"}

Lens == 0..MaxLen
Indices == 0..MaxLen

WideLens == 0..(RangeMax + 1)
WideIndices == 0..(RangeMax + 1)
WideTypes == {"A"}
WideTransforms == {"dec"}

----------------------------------------------------------------------------
(* Trait resolution *)

\* faulty variant: both ranges taken inclusive of their upper end, from length 0
InRangeImplsInclusive == UNION {{<<I, N>> : I \in 0..N} : N \in 0..RangeMax}

\* faulty variant: the table generated one length too far
InRangeImplsUncapped ==
    UNION {{<<I, N>> : I \in 0..(N - 1)} : N \in 1..(RangeMax + 1)}

\* faulty variant: the last index of every length left out
InRangeImplsShort == UNION {{<<I, N>> : I \in 0..(N - 2)} : N \in 1..RangeMax}

\* the generated marker impls: InRange<I, L<N>> for every T: Length<Len = L<N>>
InRangeImpls == UNION {{<<I, N>> : I \in 0..(N - 1)} : N \in 1..RangeMax}

\* T: InRange<i, <T as Length>::Len>
InRange(i) == \E N \in length : <<i, N>> \in InRangeImpls

\* T: Chain<i>
ChainExists(i) == \E c \in chains : c.idx = i

ChainAt(i) == CHOOSE c \in chains : c.idx = i

\* <T as Link<K>>::In and ::Out
LinkIn(K) == ChainAt(0).in

LinkOut(K) == ChainAt(K - 1).out

\* faulty variant: the stage bound without its In = Out binding
LinkWhereUnchecked(K) == TRUE

\* the binding  Chain<{N - 1}, In<'a> = <T as Link<{N - 1}>>::Out<'a>>
LinkWhere(K) == ChainAt(K - 1).in = LinkOut(K - 1)

\* T: Link<K>
RECURSIVE LinkExists(_)
LinkExists(K) ==
    IF K = 1 THEN ChainExists(0)
    ELSE IF K \in 2..LinkMax
         THEN /\ ChainExists(0)
              /\ ChainExists(K - 1)
              /\ LinkExists(K - 1)
              /\ LinkIn(K - 1) = ChainAt(0).in
              /\ LinkWhere(K)
         ELSE FALSE

\* faulty variant: Cascade bound to the link one level below the declared length
CascadeLevelBelow(N) == N - 1

\* the N of  impl<const N: usize, T: Link<N> + Length<Len = L<N>>> Cascade for T
CascadeLevel(N) == N

\* T: Cascade
CascadeExists == \E N \in length : LinkExists(CascadeLevel(N))

\* every impl Chain<I> for T satisfies its supertrait bound Self: InRange<I, Len>
WellFormed == \A c \in chains : InRange(c.idx)

----------------------------------------------------------------------------
(* Stage logic and frames *)

\* the transform of a stage: [ok |-> TRUE, v |-> output] or a panic
Apply(f, x) ==
    IF f = "dbl" THEN [ok |-> TRUE, v |-> (2 * x) % (MaxVal + 1)]
    ELSE IF x = 0 THEN [ok |-> FALSE, v |-> x]
    ELSE [ok |-> TRUE, v |-> x - 1]

Frame(fn, n) == [fn |-> fn, n |-> n, pc |-> 1]

\* faulty variant: link runs its own stage before the lower link
BodyReversed(fr) ==
    IF fr.fn = "cascade" THEN <<Frame("link", CascadeLevel(fr.n))>>
    ELSE IF fr.fn = "link" /\ fr.n = 1 THEN <<Frame("chain", 0)>>
    ELSE IF fr.fn = "link"
         THEN <<Frame("chain", fr.n - 1), Frame("link", fr.n - 1)>>
    ELSE <<>>

\* faulty variant: link forgets the lower link and runs only its own stage
BodyLastOnly(fr) ==
    IF fr.fn = "cascade" THEN <<Frame("link", CascadeLevel(fr.n))>>
    ELSE IF fr.fn = "link" THEN <<Frame("chain", fr.n - 1)>>
    ELSE <<>>

\* the calls a frame makes, in order, each fed the previous one's result
Body(fr) ==
    IF fr.fn = "cascade" THEN <<Frame("link", CascadeLevel(fr.n))>>
    ELSE IF fr.fn = "link" /\ fr.n = 1 THEN <<Frame("chain", 0)>>
    ELSE IF fr.fn = "link"
         THEN <<Frame("link", fr.n - 1), Frame("chain", fr.n - 1)>>
    ELSE <<>>

\* faulty variant: link catches a stage's panic and carries on
CatchesUnwindInLink(fr) == fr.fn = "link"

\* no frame of the mechanism holds a catch_unwind
CatchesUnwind(fr) == FALSE

NoResult == [kind |-> "none", v |-> 0, stage |-> 0]

Top == stack[Len(stack)]

Pop(s) == SubSeq(s, 1, Len(s) - 1)

\* the stack after its top frame returned: the caller moves to its next call
Resume(s) ==
    IF Len(s) <= 1 THEN <<>>
    ELSE [Pop(s) EXCEPT ![Len(s) - 1].pc = @ + 1]

----------------------------------------------------------------------------
Init ==
    /\ phase = "authoring"
    /\ length = {}
    /\ chains = {}
    /\ stack = <<>>
    /\ val = 0
    /\ unwinding = {}
    /\ trace = <<>>
    /\ input = <<>>
    /\ result = NoResult

\* impl Length for T { type Len = L<n>; }  (one impl per type: coherence)
ImplLength(n) ==
    /\ phase = "authoring"
    /\ length = {}
    /\ length' = {n}
    /\ UNCHANGED <<phase, chains, stack, val, unwinding, trace, input, result>>

\* impl Chain<i> for T { type In = tin; type Out = tout; fn chain = f }
ImplChain(i, tin, tout, f) ==
    /\ phase = "authoring"
    /\ ~ChainExists(i)
    /\ chains' = chains \cup {[idx |-> i, in |-> tin, out |-> tout, f |-> f]}
    /\ UNCHANGED <<phase, length, stack, val, unwinding, trace, input, result>>

\* rustc checks the crate: an impl whose bound fails is a compile error
Compile ==
    /\ phase = "authoring"
    /\ phase' = IF WellFormed THEN "built" ELSE "rejected"
    /\ UNCHANGED <<length, chains, stack, val, unwinding, trace, input, result>>

\* T::cascade(x): resolves only when T: Cascade
CallCascade(x) ==
    /\ phase = "built"
    /\ stack = <<>>
    /\ CascadeExists
    /\ stack' = <<Frame("cascade", CHOOSE N \in length : TRUE)>>
    /\ val' = x
    /\ input' = <<x>>
    /\ trace' = <<>>
    /\ unwinding' = {}
    /\ result' = NoResult
    /\ UNCHANGED <<phase, length, chains>>

\* the top frame makes its next call, passing the current value
CallNext ==
    /\ stack # <<>>
    /\ unwinding = {}
    /\ Top.fn # "chain"
    /\ Top.pc <= Len(Body(Top))
    /\ LET callee == Body(Top)[Top.pc] IN
         /\ stack' = Append(stack, callee)
         /\ trace' = IF callee.fn = "chain"
                     THEN Append(trace, [ev |-> "call", i |-> callee.n, v |-> val])
                     ELSE trace
    /\ UNCHANGED <<phase, length, chains, val, unwinding, input, result>>

\* <T as Chain<i>>::chain(val) runs the stage's transform
ChainRun ==
    /\ stack # <<>>
    /\ unwinding = {}
    /\ Top.fn = "chain"
    /\ LET i == Top.n
           r == Apply(ChainAt(i).f, val)
       IN IF r.ok
          THEN /\ val' = r.v
               /\ trace' = Append(trace, [ev |-> "ret", i |-> i, v |-> r.v])
               /\ stack' = Resume(stack)
               /\ UNCHANGED unwinding
          ELSE /\ unwinding' = {[stage |-> i, v |-> val]}
               /\ trace' = Append(trace, [ev |-> "panic", i |-> i, v |-> val])
               /\ stack' = Pop(stack)
               /\ UNCHANGED val
    /\ UNCHANGED <<phase, length, chains, input, result>>

\* a cascade or link frame returns the value of its last call
Return ==
    /\ stack # <<>>
    /\ unwinding = {}
    /\ Top.fn # "chain"
    /\ Top.pc > Len(Body(Top))
    /\ stack' = Resume(stack)
    /\ result' = IF Len(stack) = 1
                 THEN [kind |-> "ok", v |-> val, stage |-> 0]
                 ELSE result
    /\ UNCHANGED <<phase, length, chains, val, unwinding, trace, input>>

\* a panic leaves the top frame; with no frame left it ends the invocation
Unwind ==
    /\ stack # <<>>
    /\ unwinding # {}
    /\ LET p == CHOOSE q \in unwinding : TRUE IN
       IF CatchesUnwind(Top)
       THEN /\ stack' = [stack EXCEPT ![Len(stack)].pc = @ + 1]
            /\ unwinding' = {}
            /\ UNCHANGED result
       ELSE /\ stack' = Pop(stack)
            /\ UNCHANGED unwinding
            /\ result' = IF Len(stack) = 1
                         THEN [kind |-> "panic", v |-> p.v, stage |-> p.stage]
                         ELSE result
    /\ UNCHANGED <<phase, length, chains, val, trace, input>>

Next ==
    \/ \E n \in Lens : ImplLength(n)
    \/ \E i \in Indices, tin \in Types, tout \in Types, f \in Transforms :
         ImplChain(i, tin, tout, f)
    \/ Compile
    \/ \E x \in Val : CallCascade(x)
    \/ CallNext
    \/ ChainRun
    \/ Return
    \/ Unwind

Spec == Init /\ [][Next]_vars

\* the same program over every length and index of the generated tables
WideNext ==
    \/ \E n \in WideLens : ImplLength(n)
    \/ \E i \in WideIndices, tin \in WideTypes, tout \in WideTypes,
          f \in WideTransforms :
         /\ Cardinality(chains) < WideMaxImpls
         /\ ImplChain(i, tin, tout, f)
    \/ Compile
    \/ \E x \in Val : CallCascade(x)
    \/ CallNext
    \/ ChainRun
    \/ Return
    \/ Unwind

WideSpec == Init /\ [][WideNext]_vars

----------------------------------------------------------------------------
(* Properties *)

\* the declared length, where one is declared
DeclaredLen == CHOOSE N \in length : TRUE

\* stages 0..N-1 applied to r one after the other, a panic ending the fold
RECURSIVE NestedFrom(_, _, _)
NestedFrom(i, N, r) ==
    IF i >= N \/ ~r.ok THEN r
    ELSE NestedFrom(i + 1, N, Apply(ChainAt(i).f, r.v))

Nested(x) == NestedFrom(0, DeclaredLen, [ok |-> TRUE, v |-> x])

\* stages 0..K-1 all exist and each one's input type is its predecessor's
\* output type (the composition at K, with K = 1 being stage 0 alone)
Composition(K) ==
    /\ K >= 1
    /\ \A j \in 0..(K - 1) : ChainExists(j)
    /\ \A j \in 1..(K - 1) : ChainAt(j).in = ChainAt(j - 1).out

Finished == input # <<>> /\ stack = <<>>

\* C1: a finished cascade(x) on an owner with declared length N returned
\* exactly stage(N-1)(...stage(0)(x)...), and for N = 1 exactly stage0(x);
\* it ended in a panic exactly when that nested application panics.
C1_CascadeIsNestedApplication ==
    Finished =>
        LET e == Nested(input[1]) IN
        /\ e.ok => result = [kind |-> "ok", v |-> e.v, stage |-> 0]
        /\ ~e.ok => result.kind = "panic"
        /\ DeclaredLen = 1 /\ result.kind = "ok" =>
               result.v = Apply(ChainAt(0).f, input[1]).v

C1_Witness ==
    /\ Finished
    /\ DeclaredLen = 3
    /\ result.kind = "ok"
    /\ ChainAt(0).f = "dec"
    /\ ChainAt(1).f = "dbl"
    /\ ChainAt(2).f = "dec"
    /\ result.v # input[1]

C3_TypeMismatchFailsClosed ==
    \A N \in length : \A K \in 1..(N - 1) :
        (/\ ChainExists(K - 1)
         /\ ChainExists(K)
         /\ ChainAt(K - 1).out # ChainAt(K).in)
        => /\ \A M \in (K + 1)..LinkMax : ~LinkExists(M)
           /\ ~CascadeExists
           /\ input = <<>> /\ stack = <<>> /\ trace = <<>>

C3_Witness ==
    /\ phase = "built"
    /\ length = {3}
    /\ \A i \in 0..2 : ChainExists(i)
    /\ ChainAt(0).out = ChainAt(1).in
    /\ ChainAt(1).out # ChainAt(2).in
    /\ LinkExists(2)

\* C4: when some index below the declared length has no stage, Cascade does
\* not exist and is never invoked, even if the stages present fit together;
\* Cascade exists only with stages at every index 0..N-1.
C4_GapMeansNoCascade ==
    /\ (\E N \in length : \E i \in 0..(N - 1) : ~ChainExists(i))
           => ~CascadeExists /\ input = <<>> /\ stack = <<>>
    /\ CascadeExists => \A i \in 0..(DeclaredLen - 1) : ChainExists(i)

C4_Witness ==
    /\ phase = "built"
    /\ length = {3}
    /\ ChainExists(0) /\ ~ChainExists(1) /\ ChainExists(2)
    /\ ChainAt(0).out = ChainAt(2).in

C6_StagesInOrderOnce ==
    /\ \A p \in 1..Len(trace) :
         IF p % 2 = 1
         THEN trace[p].ev = "call" /\ trace[p].i = (p - 1) \div 2
         ELSE /\ trace[p].ev \in {"ret", "panic"}
              /\ trace[p].i = (p - 2) \div 2
              /\ trace[p].ev = "panic" => p = Len(trace)
    /\ input # <<>> => Len(trace) <= 2 * DeclaredLen
    /\ result.kind = "ok" =>
         /\ Len(trace) = 2 * DeclaredLen
         /\ \A p \in 1..Len(trace) : trace[p].ev # "panic"

C6_Witness ==
    /\ result.kind = "ok"
    /\ DeclaredLen = 3
    /\ Len(trace) = 6

\* C7: once stage K has panicked, nothing more is called (neither K again
\* nor a later stage), the invocation never yields a value, and it ends with
\* the panic stage K raised, unchanged.
C7_PanicPropagatesUnmodified ==
    \A p \in 1..Len(trace) :
        trace[p].ev = "panic" =>
            /\ p = Len(trace)
            /\ result.kind # "ok"
            /\ stack # <<>> =>
                   /\ result = NoResult
                   /\ unwinding = {[stage |-> trace[p].i, v |-> trace[p].v]}
            /\ stack = <<>> =>
                   result = [kind |-> "panic", v |-> trace[p].v,
                             stage |-> trace[p].i]

C7_Witness ==
    /\ length = {3}
    /\ stack = <<>>
    /\ result.kind = "panic"
    /\ result.stage = 1
    /\ Len(trace) = 4

C10_ValidIndexAccepted ==
    \A L \in length : L \in 1..RangeMax =>
        /\ \A I \in 0..(L - 1) : InRange(I)
        /\ (\A c \in chains : c.idx < L) => phase # "rejected"

C10_Witness ==
    /\ phase = "built"
    /\ length = {RangeMax}
    /\ ChainExists(RangeMax - 1)
    /\ ChainExists(0)

====
